---- MODULE Spec2Model ----
(***************************************************************************)
(* Voice transcription service: the transcription request pipeline.        *)
(*                                                                         *)
(* The repository holds two applications.  The packaged service            *)
(* (src/src/voicetranscript/main.py, endpoint transcribe_audio) validates, *)
(* materialises a temporary file, calls the engine and maps errors to a    *)
(* structured body.  The rate-limited service (src/main.py, endpoint       *)
(* transcribe) puts a slowapi limiter ("5/minute") in front of a simpler   *)
(* pipeline.  Text values are sequences of one-character strings, so that  *)
(* split, strip, lower and join are computed and not assumed.              *)
(***************************************************************************)
EXTENDS Integers, Sequences, FiniteSets, TLC

VARIABLES
    app,        \* src/main.py: [pc, ping]: how far the module has started, and how its Redis probe ended
    storage,    \* src/main.py: the store the Limiter was built on: "unset", "redis", "memory"
    redisUp,    \* environment: whether the Redis server answers
    store,      \* rate-limit windows of each store: backend -> key -> [window, count]
    now,        \* environment: wall clock, in seconds
    arrivals,   \* history: POST /transcribe arrivals at the limiter in the current window, per key
    model,      \* voicetranscript/main.py: global model, "None" or "loaded"
    fs,         \* temporary files that exist on disk
    req,        \* the request being handled (pc = "idle" when there is none)
    probe,      \* input of a pure function under check
    answer      \* its output (<<>> before the function is applied)

vars == <<app, storage, redisUp, store, now, arrivals, model, fs, req, probe, answer>>

pipelineVars == <<app, storage, redisUp, store, now, arrivals, model, fs, req>>

---------------------------------------------------------------------------
(* Bounds of the model *)

MaxHeaderLen == 3       \* longest X-Forwarded-For value enumerated
MaxSegments == 2        \* most segments an engine run emits
MaxSegLen == 2          \* longest segment text enumerated
MaxNow == 60            \* the clock stops advancing here
MaxPerWindow == 6       \* most arrivals of one key in one window
MaxFaults == 1          \* most temporary files the environment lets leak
MaxInFlight == 2        \* most requests inside the limiter's wrapper at once

---------------------------------------------------------------------------
(* Text *)

Whitespace == {" ", "\t"}

RECURSIVE LStrip(_)
LStrip(s) ==
    IF s # <<>> /\ Head(s) \in Whitespace THEN LStrip(Tail(s)) ELSE s

RECURSIVE RStrip(_)
RStrip(s) ==
    IF s # <<>> /\ s[Len(s)] \in Whitespace
    THEN RStrip(SubSeq(s, 1, Len(s) - 1))
    ELSE s

\* str.strip()
Strip(s) == RStrip(LStrip(s))

\* str.find(c) + 1: the first position of c in s, 0 when it is absent
Find(s, c) ==
    IF \E i \in 1..Len(s) : s[i] = c
    THEN CHOOSE i \in 1..Len(s) : s[i] = c /\ \A j \in 1..(i - 1) : s[j] # c
    ELSE 0

\* str.rfind(c) + 1: the last position of c in s, 0 when it is absent
RFind(s, c) ==
    IF \E i \in 1..Len(s) : s[i] = c
    THEN CHOOSE i \in 1..Len(s) : s[i] = c /\ \A j \in (i + 1)..Len(s) : s[j] # c
    ELSE 0

\* s.split(c)[0]
SplitFirst(s, c) ==
    IF Find(s, c) = 0 THEN s ELSE SubSeq(s, 1, Find(s, c) - 1)

\* s.split(c)[-1]
SplitLast(s, c) == SubSeq(s, RFind(s, c) + 1, Len(s))

LowerChar(c) ==
    CASE c = "A" -> "a"
      [] c = "V" -> "v"
      [] c = "W" -> "w"
      [] OTHER -> c

\* str.lower()
Lower(s) == [i \in 1..Len(s) |-> LowerChar(s[i])]

RECURSIVE LStripDots(_)
\* str.lstrip('.')
LStripDots(s) ==
    IF s # <<>> /\ Head(s) = "." THEN LStripDots(Tail(s)) ELSE s

RECURSIVE Join(_)
\* "".join(parts)
Join(parts) ==
    IF parts = <<>> THEN <<>> ELSE Head(parts) \o Join(Tail(parts))

\* " ".join(parts): a join that puts a separator between the parts
RECURSIVE JoinSpaced(_)
JoinSpaced(parts) ==
    IF parts = <<>> THEN <<>>
    ELSE IF Len(parts) = 1 THEN Head(parts)
    ELSE Head(parts) \o <<" ">> \o JoinSpaced(Tail(parts))

\* All sequences over S of length at most n
SeqsUpTo(S, n) == UNION {[1..k -> S] : k \in 0..n}

---------------------------------------------------------------------------
(* Client identity.  A header or the connection is an option: <<>> when    *)
(* absent (None), <<v>> when present with value v.                         *)

Unknown == <<"u", "n", "k", "n", "o", "w", "n">>

\* Python truthiness of an optional string: present and non-empty
Truthy(opt) == opt # <<>> /\ opt[1] # <<>>

\* get_client_ip with the .strip() of the first token left out
get_client_ip_untrimmed(xff, xri, client) ==
    IF Truthy(xff) THEN SplitFirst(xff[1], ",")
    ELSE IF Truthy(xri) THEN xri[1]
    ELSE IF Truthy(client) THEN client[1]
    ELSE Unknown

\* voicetranscript/main.py get_client_ip
get_client_ip(xff, xri, client) ==
    IF Truthy(xff) THEN Strip(SplitFirst(xff[1], ","))
    ELSE IF Truthy(xri) THEN xri[1]
    ELSE IF Truthy(client) THEN client[1]
    ELSE Unknown

\* src/main.py get_client_ip, the limiter's key function
main_get_client_ip(xff, xri, client) ==
    IF Truthy(xff) THEN Strip(SplitFirst(xff[1], ","))
    ELSE IF Truthy(xri) THEN xri[1]
    ELSE IF client # <<>> THEN client[1]
    ELSE Unknown

---------------------------------------------------------------------------
(* Input validation *)

SUPPORTED_FORMATS ==
    {<<"w", "a", "v">>, <<"m", "p", "3">>, <<"m", "4", "a">>, <<"o", "g", "g">>, <<"f", "l", "a", "c">>, <<"w", "e", "b", "m">>, <<"m", "p", "4">>}

MAIN_SUPPORTED_FORMATS ==
    {<<"w", "a", "v">>, <<"m", "p", "3">>, <<"m", "4", "a">>, <<"o", "g", "g">>, <<"f", "l", "a", "c">>}

FILE_SIZE_LIMIT == 10485760

\* pathlib: PurePath.name, the final path component
PathName(filename) == SplitLast(filename, "/")

\* pathlib: PurePath.suffix, from the last dot of the name, unless that dot
\* is the name's first or last character
PathSuffix(name) ==
    IF 1 < RFind(name, ".") /\ RFind(name, ".") < Len(name)
    THEN SubSeq(name, RFind(name, "."), Len(name))
    ELSE <<>>

\* Path(file.filename).suffix.lower().lstrip('.')
file_extension(filename) == LStripDots(Lower(PathSuffix(PathName(filename))))

\* validate_audio_file with the two size checks moved ahead of the extension check
validate_audio_file_size_first(filename, size, content_type) ==
    IF filename = <<>> THEN "MISSING_FILENAME"
    ELSE IF size = 0 THEN "EMPTY_FILE"
    ELSE IF size > FILE_SIZE_LIMIT THEN "FILE_TOO_LARGE"
    ELSE IF file_extension(filename) \notin SUPPORTED_FORMATS THEN "UNSUPPORTED_FORMAT"
    ELSE "OK"

\* voicetranscript/main.py validate_audio_file: the error_code of the
\* ValidationError it raises, "OK" when it returns.  The content type only
\* decides a log line.
validate_audio_file(filename, size, content_type) ==
    IF filename = <<>> THEN "MISSING_FILENAME"
    ELSE IF file_extension(filename) \notin SUPPORTED_FORMATS THEN "UNSUPPORTED_FORMAT"
    ELSE IF size = 0 THEN "EMPTY_FILE"
    ELSE IF size > FILE_SIZE_LIMIT THEN "FILE_TOO_LARGE"
    ELSE "OK"

\* src/main.py transcribe: file.filename.split(".")[-1].lower()
main_ext(filename) == Lower(SplitLast(filename, "."))

\* src/main.py transcribe: the limit in MB the detail of its HTTPException
\* states: "File size exceeds the limit of 10MB." for 413, none for 400
main_detail_limit_mb(status) == IF status = 413 THEN 10 ELSE 0

\* src/main.py transcribe: the status of the HTTPException its checks raise,
\* 200 when both pass
main_validate(filename, size) ==
    IF size > 10 * 1024 * 1024 THEN 413
    ELSE IF main_ext(filename) \notin MAIN_SUPPORTED_FORMATS THEN 400
    ELSE 200

---------------------------------------------------------------------------
(* Transcription.  An engine run b is [fault, segs]: fault "call" when     *)
(* model.transcribe raises, "iter" when iterating the lazy segments        *)
(* raises, "none" when it emits the texts segs.                            *)

NoSpeech ==
    <<"[", "N", "o", " ", "s", "p", "e", "e", "c", "h", " ", "d", "e", "t", "e", "c", "t", "e", "d", "]">>

Return(value) == [raised |-> "none", code |-> "none", cause |-> "none", value |-> value]

Raise(type, code, cause) == [raised |-> type, code |-> code, cause |-> cause, value |-> <<>>]

\* the try block with " ".join in place of "".join
transcribe_try_spaced(m, b) ==
    IF m = "None"
    THEN Raise("TranscriptionError", "MODEL_NOT_LOADED", "model not initialized")
    ELSE IF b.fault = "call" THEN Raise("RuntimeError", "none", "engine call")
    ELSE IF b.fault = "iter" THEN Raise("RuntimeError", "none", "engine segments")
    ELSE IF Strip(JoinSpaced(b.segs)) = <<>> THEN Return(NoSpeech)
    ELSE Return(Strip(JoinSpaced(b.segs)))

\* the try block without the `if not transcript` branch
transcribe_try_no_sentinel(m, b) ==
    IF m = "None"
    THEN Raise("TranscriptionError", "MODEL_NOT_LOADED", "model not initialized")
    ELSE IF b.fault = "call" THEN Raise("RuntimeError", "none", "engine call")
    ELSE IF b.fault = "iter" THEN Raise("RuntimeError", "none", "engine segments")
    ELSE Return(Strip(Join(b.segs)))

\* the try block of transcribe_audio_file
transcribe_try(m, b) ==
    IF m = "None"
    THEN Raise("TranscriptionError", "MODEL_NOT_LOADED", "model not initialized")
    ELSE IF b.fault = "call" THEN Raise("RuntimeError", "none", "engine call")
    ELSE IF b.fault = "iter" THEN Raise("RuntimeError", "none", "engine segments")
    ELSE IF Strip(Join(b.segs)) = <<>> THEN Return(NoSpeech)
    ELSE Return(Strip(Join(b.segs)))

\* transcribe_audio_file with the segment loop moved out of the try block
transcribe_audio_file_iter_outside_try(m, b) ==
    IF transcribe_try(m, b).raised = "none" \/ b.fault = "iter"
    THEN transcribe_try(m, b)
    ELSE Raise("TranscriptionError", "TRANSCRIPTION_FAILED", transcribe_try(m, b).cause)

\* voicetranscript/main.py transcribe_audio_file: every exception of the try
\* block, its own TranscriptionError included, is caught by `except Exception`
\* and raised again as TranscriptionError("TRANSCRIPTION_FAILED")
transcribe_audio_file(m, b) ==
    IF transcribe_try(m, b).raised = "none"
    THEN transcribe_try(m, b)
    ELSE Raise("TranscriptionError", "TRANSCRIPTION_FAILED", transcribe_try(m, b).cause)

\* whether transcribe_audio_file reaches model.transcribe
engine_invoked(m) == m # "None"

\* src/main.py transcribe: model.transcribe and "".join of the segment texts
main_transcribe(b) ==
    IF b.fault = "call" THEN Raise("RuntimeError", "none", "engine call")
    ELSE IF b.fault = "iter" THEN Raise("RuntimeError", "none", "engine segments")
    ELSE Return(Join(b.segs))

---------------------------------------------------------------------------
(* Inputs enumerated for the pure functions *)

Filenames ==
    {<<>>,
     <<"a", ".", "w", "a", "v">>,
     <<"a", ".", "W", "A", "V">>,
     <<"a", ".", "m", "p", "3">>,
     <<"a", ".", "m", "4", "a">>,
     <<"a", ".", "o", "g", "g">>,
     <<"a", ".", "f", "l", "a", "c">>,
     <<"a", ".", "w", "e", "b", "m">>,
     <<"a", ".", "m", "p", "4">>,
     <<"a", ".", "t", "x", "t">>,
     <<"w", "a", "v">>,
     <<".", "w", "a", "v">>,
     <<"a", ".", "w", "a", "v", ".">>,
     <<"a", ".", "b", ".", "w", "a", "v">>,
     <<"a", ".", "w", "a", "v", ".", "t", "x", "t">>,
     <<"a">>,
     <<"a", ".", "b", "/", "c">>,
     <<"a", "/", "b", ".", "w", "a", "v">>}

Sizes == {0, 1, FILE_SIZE_LIMIT, FILE_SIZE_LIMIT + 1}

ContentTypes == {<<>>, <<"audio/wav">>, <<"text/plain">>}

XffChars == {"1", ",", " "}

ForwardedValues == {<<>>} \cup {<<v>> : v \in SeqsUpTo(XffChars, MaxHeaderLen)}

RealIpValues == {<<>>, << <<>> >>, << <<"2">> >>, << <<" ", "2">> >>}

ConnectionValues == {<<>>, << <<>> >>, << <<"9">> >>}

SegChars == {" ", "\t", "a"}

SegmentRuns == SeqsUpTo(SeqsUpTo(SegChars, MaxSegLen), MaxSegments)

---------------------------------------------------------------------------
(* The state of the two services *)

\* The callers of the pipeline: request headers and connection address
Clients ==
    {[xff |-> << <<"1", ",", " ", "2">> >>, xri |-> <<>>, client |-> << <<"9">> >>],
     [xff |-> <<>>, xri |-> << <<"2">> >>, client |-> << <<"9">> >>]}

Keys == {main_get_client_ip(c.xff, c.xri, c.client) : c \in Clients}

Backends == {"redis", "memory"}

\* A response: status, the error kind in the body ("none" when the body has
\* none), the transcript, the keys of the JSON body, the exception text the
\* message is built from ("none" when it has none), the response headers the
\* handler sets, the metadata object (<<>> when absent), the formats the
\* message enumerates and the size limit in MB it states (0 when it states none)
Response(status, code, transcript, fields, cause) ==
    [status |-> status, code |-> code, transcript |-> transcript,
     fields |-> fields, cause |-> cause, headers |-> {}, metadata |-> <<>>,
     formats |-> {}, limit_mb |-> 0]

NoResponse == Response(0, "none", <<>>, {}, "none")

Idle ==
    [svc |-> "none", pc |-> "idle", key |-> <<>>, filename |-> <<>>, size |-> 0,
     tmp |-> 0, tmp_path |-> 0, outcome |-> Return(<<>>), resp |-> NoResponse,
     decision |-> "none", backend |-> "none", nth |-> 0, fault |-> "none",
     engine_calls |-> 0, health |-> "none", prev |-> [window |-> 0, count |-> 0]]

PipelineAtRest ==
    /\ app = [pc |-> "import", ping |-> "none"]
    /\ storage = "unset"
    /\ redisUp = TRUE
    /\ store = [b \in Backends |-> [k \in Keys |-> [window |-> 0, count |-> 0]]]
    /\ now = 0
    /\ arrivals = [k \in Keys |-> 0]
    /\ model = "None"
    /\ fs = {}
    /\ req = Idle

---------------------------------------------------------------------------
(* Client identity resolution applied to every enumerated header set *)

InitIp ==
    /\ PipelineAtRest
    /\ probe \in [xff : ForwardedValues, xri : RealIpValues, client : ConnectionValues]
    /\ answer = <<>>

ResolvePkg ==
    /\ answer = <<>>
    /\ answer' = <<[fn |-> "pkg", ip |-> get_client_ip(probe.xff, probe.xri, probe.client)]>>
    /\ UNCHANGED <<pipelineVars, probe>>

ResolveMain ==
    /\ answer = <<>>
    /\ answer' = <<[fn |-> "main", ip |-> main_get_client_ip(probe.xff, probe.xri, probe.client)]>>
    /\ UNCHANGED <<pipelineVars, probe>>

NextIp == ResolvePkg \/ ResolveMain

SpecIp == InitIp /\ [][NextIp]_vars

---------------------------------------------------------------------------
(* Validation applied to every enumerated upload *)

InitValidate ==
    /\ PipelineAtRest
    /\ probe \in [filename : Filenames, size : Sizes, content_type : ContentTypes]
    /\ answer = <<>>

Validate ==
    /\ answer = <<>>
    /\ answer' = <<validate_audio_file(probe.filename, probe.size, probe.content_type)>>
    /\ UNCHANGED <<pipelineVars, probe>>

NextValidate == Validate

SpecValidate == InitValidate /\ [][NextValidate]_vars

---------------------------------------------------------------------------
(* Transcript assembly applied to every enumerated engine run *)

InitAssemble ==
    /\ PipelineAtRest
    /\ probe \in [fault : {"none"}, segs : SegmentRuns]
    /\ answer = <<>>

Assemble ==
    /\ answer = <<>>
    /\ answer' = <<transcribe_audio_file("loaded", probe)>>
    /\ UNCHANGED <<pipelineVars, probe>>

NextAssemble == Assemble

SpecAssemble == InitAssemble /\ [][NextAssemble]_vars

---------------------------------------------------------------------------
(* The rate limiter of src/main.py: Limiter(...) and @limiter.limit("5/minute") *)

RATE_LIMIT == 5

RATE_WINDOW == 60

\* the fixed window a time falls in
current_window(t) == t \div RATE_WINDOW

\* a count that is never started afresh when the window changes
limiter_hit_no_reset(entry, w) ==
    [window |-> w, count |-> entry.count + 1]

\* one counted request: the key's window after the increment
limiter_hit(entry, w) ==
    [window |-> w, count |-> IF entry.window = w THEN entry.count + 1 ELSE 1]

\* the request is allowed iff the count it produced is within the limit
limiter_allows(entry) == entry.count <= RATE_LIMIT

\* a limiter that picks its store again at every check
limiter_backend_reprobing(built_on, up) == IF up THEN "redis" ELSE "memory"

\* the store a check goes to: the one the Limiter was constructed with
limiter_backend(built_on, up) == built_on

\* custom_rate_limit_handler
custom_rate_limit_handler == Response(429, "none", <<>>, {"detail"}, "none")

---------------------------------------------------------------------------
(* Environment and start-up *)

UploadNames ==
    {<<>>, <<"a", ".", "w", "a", "v">>, <<"a", ".", "w", "e", "b", "m">>,
     <<"a", ".", "t", "x", "t">>}

UploadSizes == {0, 1, FILE_SIZE_LIMIT + 1}

EngineRuns ==
    {[fault |-> "call", segs |-> <<>>],
     [fault |-> "iter", segs |-> <<>>],
     [fault |-> "none", segs |-> <<>>],
     [fault |-> "none", segs |-> << <<"a", " ">>, <<"a">> >>]}

\* tempfile: a name no existing file has
NewTmp == CHOOSE n \in 1..(Cardinality(fs) + 1) : n \notin fs

Init ==
    /\ app = [pc |-> "import", ping |-> "none"]
    /\ storage = "unset"
    /\ redisUp \in BOOLEAN
    /\ store = [b \in Backends |-> [k \in Keys |-> [window |-> 0, count |-> 0]]]
    /\ now = 0
    /\ arrivals = [k \in Keys |-> 0]
    /\ model = "None"
    /\ fs = {}
    /\ req = Idle
    /\ probe = <<>>
    /\ answer = <<>>

RedisFails ==
    /\ req.pc = "idle"
    /\ redisUp
    /\ redisUp' = FALSE
    /\ UNCHANGED <<app, storage, store, now, arrivals, model, fs, req, probe, answer>>

RedisRecovers ==
    /\ req.pc = "idle"
    /\ ~redisUp
    /\ redisUp' = TRUE
    /\ UNCHANGED <<app, storage, store, now, arrivals, model, fs, req, probe, answer>>

\* half a window passes
Tick ==
    /\ req.pc = "idle"
    /\ now + RATE_WINDOW \div 2 <= MaxNow
    /\ now' = now + RATE_WINDOW \div 2
    /\ arrivals' = IF current_window(now') = current_window(now)
                   THEN arrivals
                   ELSE [k \in Keys |-> 0]
    /\ UNCHANGED <<app, storage, redisUp, store, model, fs, req, probe, answer>>

\* src/main.py module body: ping Redis; build the Limiter on Redis when the
\* ping answers, on memory when anything in the try block raises
import_main ==
    /\ app.pc = "import"
    /\ app' = [pc |-> "startup", ping |-> IF redisUp THEN "ok" ELSE "failed"]
    /\ storage' = IF redisUp THEN "redis" ELSE "memory"
    /\ UNCHANGED <<redisUp, store, now, arrivals, model, fs, req, probe, answer>>

\* src/main.py startup_event: pings again and only logs
startup_event ==
    /\ app.pc = "startup"
    /\ app' = [app EXCEPT !.pc = "serving"]
    /\ UNCHANGED <<storage, redisUp, store, now, arrivals, model, fs, req, probe, answer>>

\* voicetranscript/main.py lifespan: loads the model
lifespan ==
    /\ req.pc = "idle"
    /\ model = "None"
    /\ model' = "loaded"
    /\ UNCHANGED <<app, storage, redisUp, store, now, arrivals, fs, req, probe, answer>>

---------------------------------------------------------------------------
(* POST /transcribe of src/main.py *)

\* transcribe registered without the limiter's wrapper: arrivals are not counted
limiter_limit_not_applied ==
    /\ app.pc = "serving"
    /\ req.pc = "idle"
    /\ \E c \in Clients : \E f \in UploadNames : \E n \in UploadSizes :
        LET key == main_get_client_ip(c.xff, c.xri, c.client) IN
        /\ arrivals[key] < MaxPerWindow
        /\ arrivals' = [arrivals EXCEPT ![key] = @ + 1]
        /\ req' = [Idle EXCEPT !.svc = "main", !.key = key, !.filename = f, !.size = n,
                      !.backend = storage, !.pc = "validate", !.decision = "allowed",
                      !.nth = arrivals[key] + 1]
    /\ UNCHANGED <<app, storage, redisUp, store, now, model, fs, probe, answer>>

\* the limit checked inside transcribe, after its size and extension checks:
\* a request those checks reject is answered by them and is not counted
limiter_limit_after_validation ==
    /\ app.pc = "serving"
    /\ req.pc = "idle"
    /\ \E c \in Clients : \E f \in UploadNames : \E n \in UploadSizes :
        LET key == main_get_client_ip(c.xff, c.xri, c.client)
            be == limiter_backend(storage, redisUp)
            entry == limiter_hit(store[be][key], current_window(now))
            base == [Idle EXCEPT !.svc = "main", !.key = key, !.filename = f,
                                 !.size = n, !.backend = be,
                                 !.nth = arrivals[key] + 1, !.prev = store[be][key]]
        IN  /\ arrivals[key] < MaxPerWindow
            /\ be = "redis" => redisUp
            /\ arrivals' = [arrivals EXCEPT ![key] = @ + 1]
            /\ IF main_validate(f, n) # 200
               THEN /\ store' = store
                    /\ req' = [base EXCEPT !.pc = "done",
                                  !.resp = Response(main_validate(f, n), "none", <<>>,
                                                    {"detail"}, "none")]
               ELSE /\ store' = [store EXCEPT ![be][key] = entry]
                    /\ req' = IF limiter_allows(entry)
                              THEN [base EXCEPT !.pc = "validate", !.decision = "allowed"]
                              ELSE [base EXCEPT !.pc = "done", !.decision = "denied",
                                       !.resp = custom_rate_limit_handler]
    /\ UNCHANGED <<app, storage, redisUp, now, model, fs, probe, answer>>

\* a limiter with one counter for all clients: every key's window is counted
limiter_limit_shared_counter ==
    /\ app.pc = "serving"
    /\ req.pc = "idle"
    /\ \E c \in Clients : \E f \in UploadNames : \E n \in UploadSizes :
        LET key == main_get_client_ip(c.xff, c.xri, c.client)
            be == limiter_backend(storage, redisUp)
            hits == [k \in Keys |-> limiter_hit(store[be][k], current_window(now))]
            base == [Idle EXCEPT !.svc = "main", !.key = key, !.filename = f,
                                 !.size = n, !.backend = be,
                                 !.nth = arrivals[key] + 1, !.prev = store[be][key]]
        IN  /\ arrivals[key] < MaxPerWindow
            /\ be = "redis" => redisUp
            /\ arrivals' = [arrivals EXCEPT ![key] = @ + 1]
            /\ store' = [store EXCEPT ![be] = hits]
            /\ req' = IF limiter_allows(hits[key])
                      THEN [base EXCEPT !.pc = "validate", !.decision = "allowed"]
                      ELSE [base EXCEPT !.pc = "done", !.decision = "denied",
                               !.resp = custom_rate_limit_handler]
    /\ UNCHANGED <<app, storage, redisUp, now, model, fs, probe, answer>>

\* the limiter's wrapper around transcribe: resolve the key, count the
\* request in the key's window, answer 429 when the count passes the limit.
\* A store that cannot be reached raises out of the wrapper.
limiter_limit ==
    /\ app.pc = "serving"
    /\ req.pc = "idle"
    /\ \E c \in Clients : \E f \in UploadNames : \E n \in UploadSizes :
        LET key == main_get_client_ip(c.xff, c.xri, c.client)
            be == limiter_backend(storage, redisUp)
            entry == limiter_hit(store[be][key], current_window(now))
            base == [Idle EXCEPT !.svc = "main", !.key = key, !.filename = f,
                                 !.size = n, !.backend = be]
        IN  /\ arrivals[key] < MaxPerWindow
            /\ IF be = "redis" /\ ~redisUp
               THEN /\ req' = [base EXCEPT !.pc = "done", !.decision = "error",
                                  !.resp = Response(500, "none", <<>>, {}, "none")]
                    /\ UNCHANGED <<store, arrivals>>
               ELSE /\ store' = [store EXCEPT ![be][key] = entry]
                    /\ arrivals' = [arrivals EXCEPT ![key] = @ + 1]
                    /\ req' = IF limiter_allows(entry)
                              THEN [base EXCEPT !.pc = "validate", !.decision = "allowed",
                                       !.nth = arrivals[key] + 1,
                                       !.prev = store[be][key]]
                              ELSE [base EXCEPT !.pc = "done", !.decision = "denied",
                                       !.nth = arrivals[key] + 1,
                                       !.prev = store[be][key],
                                       !.resp = custom_rate_limit_handler]
    /\ UNCHANGED <<app, storage, redisUp, now, model, fs, probe, answer>>

\* the size and extension checks giving the unit back to the quota of a
\* request they reject
transcribe_validate_refunding ==
    /\ req.svc = "main"
    /\ req.pc = "validate"
    /\ req' = IF main_validate(req.filename, req.size) = 200
              THEN [req EXCEPT !.pc = "create"]
              ELSE [req EXCEPT !.pc = "done",
                       !.resp = [Response(main_validate(req.filename, req.size), "none",
                                          <<>>, {"detail"}, "none")
                                    EXCEPT !.limit_mb =
                                        main_detail_limit_mb(main_validate(req.filename, req.size))]]
    /\ store' = IF main_validate(req.filename, req.size) = 200
                THEN store
                ELSE [store EXCEPT ![req.backend][req.key].count = @ - 1]
    /\ UNCHANGED <<app, storage, redisUp, now, arrivals, model, fs, probe, answer>>

\* the size and extension checks, before the try block
transcribe_validate ==
    /\ req.svc = "main"
    /\ req.pc = "validate"
    /\ req' = IF main_validate(req.filename, req.size) = 200
              THEN [req EXCEPT !.pc = "create"]
              ELSE [req EXCEPT !.pc = "done",
                       !.resp = [Response(main_validate(req.filename, req.size), "none",
                                          <<>>, {"detail"}, "none")
                                    EXCEPT !.limit_mb =
                                        main_detail_limit_mb(main_validate(req.filename, req.size))]]
    /\ UNCHANGED <<app, storage, redisUp, store, now, arrivals, model, fs, probe, answer>>

\* tempfile.NamedTemporaryFile(delete=False, ...)
transcribe_create_tmp ==
    /\ req.svc = "main"
    /\ req.pc = "create"
    /\ fs' = fs \cup {NewTmp}
    /\ req' = [req EXCEPT !.pc = "write", !.tmp = NewTmp]
    /\ UNCHANGED <<app, storage, redisUp, store, now, arrivals, model, probe, answer>>

\* tmp.write(contents); tmp_path = tmp.name.  A write that raises leaves the
\* with block before tmp_path is assigned and lands in `except Exception`.
transcribe_write_tmp ==
    /\ req.svc = "main"
    /\ req.pc = "write"
    /\ \E written \in BOOLEAN :
        /\ ~written => Cardinality(fs) <= MaxFaults
        /\ req' = IF written
                  THEN [req EXCEPT !.pc = "engine", !.tmp_path = req.tmp]
                  ELSE [req EXCEPT !.pc = "finally",
                           !.resp = Response(500, "none", <<>>, {"detail"}, "none")]
    /\ UNCHANGED <<app, storage, redisUp, store, now, arrivals, model, fs, probe, answer>>

\* model.transcribe, the join, the JSONResponse; `except Exception` answers 500
transcribe_engine ==
    /\ req.svc = "main"
    /\ req.pc = "engine"
    /\ \E b \in EngineRuns :
        req' = [req EXCEPT !.pc = "finally", !.fault = b.fault,
                   !.engine_calls = @ + 1, !.outcome = main_transcribe(b),
                   !.resp = IF main_transcribe(b).raised = "none"
                            THEN Response(200, "none", main_transcribe(b).value,
                                          {"transcript"}, "none")
                            ELSE Response(500, "none", <<>>, {"detail"}, "none")]
    /\ UNCHANGED <<app, storage, redisUp, store, now, arrivals, model, fs, probe, answer>>

\* the finally block with os.remove called whether or not the file exists:
\* removing a missing file raises FileNotFoundError
transcribe_cleanup_unguarded(tmp_path, files, removed) ==
    IF tmp_path # 0
    THEN [fs |-> IF removed THEN files \ {tmp_path} ELSE files,
          raised |-> ~removed \/ tmp_path \notin files]
    ELSE [fs |-> files, raised |-> FALSE]

\* src/main.py transcribe, the finally block: the files left and whether it
\* raised.  os.remove runs only when tmp_path is set and the file exists;
\* removed says whether that os.remove succeeds, and one that fails raises
\* out of the block.
transcribe_cleanup(tmp_path, files, removed) ==
    IF tmp_path # 0 /\ tmp_path \in files
    THEN [fs |-> IF removed THEN files \ {tmp_path} ELSE files, raised |-> ~removed]
    ELSE [fs |-> files, raised |-> FALSE]

\* finally: os.remove when tmp_path is set and the file exists; an os.remove
\* that raises leaves the handler and the request ends in a plain 500
transcribe_finally ==
    /\ req.svc = "main"
    /\ req.pc = "finally"
    /\ \E removed \in BOOLEAN :
        LET end == transcribe_cleanup(req.tmp_path, fs, removed) IN
        /\ ~removed => (req.tmp_path \in fs /\ Cardinality(fs) <= MaxFaults)
        /\ fs' = end.fs
        /\ req' = IF end.raised
                  THEN [req EXCEPT !.pc = "done",
                           !.resp = Response(500, "none", <<>>, {}, "none")]
                  ELSE [req EXCEPT !.pc = "done"]
    /\ UNCHANGED <<app, storage, redisUp, store, now, arrivals, model, probe, answer>>

---------------------------------------------------------------------------
(* POST /transcribe of voicetranscript/main.py *)

ValidationFields == {"error", "message", "error_code", "timestamp"}

\* validate_audio_file: the formats its ValidationError message lists,
\* ", ".join(sorted(SUPPORTED_FORMATS)) for UNSUPPORTED_FORMAT
validation_message_formats(code) ==
    IF code = "UNSUPPORTED_FORMAT" THEN SUPPORTED_FORMATS ELSE {}

\* validate_audio_file: the limit its ValidationError message states,
\* FILE_SIZE_LIMIT / (1024 * 1024) for FILE_TOO_LARGE
validation_message_limit_mb(code) ==
    IF code = "FILE_TOO_LARGE" THEN FILE_SIZE_LIMIT \div (1024 * 1024) ELSE 0

\* validation_exception_handler answering an empty upload with 422
validation_exception_handler_unprocessable(exc) ==
    [Response(IF exc.code = "EMPTY_FILE" THEN 422 ELSE 400, exc.code, <<>>,
              ValidationFields, exc.cause)
        EXCEPT !.formats = validation_message_formats(exc.code),
               !.limit_mb = validation_message_limit_mb(exc.code)]

\* validation_exception_handler: 400, the exception's message and error_code
validation_exception_handler(exc) ==
    [Response(400, exc.code, <<>>, ValidationFields, exc.cause)
        EXCEPT !.formats = validation_message_formats(exc.code),
               !.limit_mb = validation_message_limit_mb(exc.code)]

\* transcription_exception_handler: the message is the exception's message
transcription_exception_handler(exc) ==
    Response(500, exc.code, <<>>, ValidationFields, exc.cause)

\* the response dict with the local file_extension where file.filename belongs
success_response_suffix_as_name(transcript, filename, size) ==
    [Response(200, "none", transcript, {"transcript", "metadata"}, "none")
        EXCEPT !.metadata = <<[filename |-> file_extension(filename),
                               file_size_bytes |-> size]>>]

\* transcribe_audio: the response dict, transcript and metadata
success_response(transcript, filename, size) ==
    [Response(200, "none", transcript, {"transcript", "metadata"}, "none")
        EXCEPT !.metadata = <<[filename |-> filename, file_size_bytes |-> size]>>]

\* client_ip, request_id, tmp_path = None
transcribe_audio_entry ==
    /\ req.pc = "idle"
    /\ \E c \in Clients : \E f \in UploadNames : \E n \in UploadSizes :
        req' = [Idle EXCEPT !.svc = "pkg", !.pc = "validate",
                   !.key = get_client_ip(c.xff, c.xri, c.client),
                   !.filename = f, !.size = n]
    /\ UNCHANGED <<app, storage, redisUp, store, now, arrivals, model, fs, probe, answer>>

\* transcribe_audio going on to the temporary file whatever validation says
transcribe_audio_validate_ignored ==
    /\ req.svc = "pkg"
    /\ req.pc = "validate"
    /\ req' = [req EXCEPT !.pc = "create"]
    /\ UNCHANGED <<app, storage, redisUp, store, now, arrivals, model, fs, probe, answer>>

\* contents = await file.read(); validate_audio_file(file, contents).  An
\* exception that is not a ValidationError, raised inside the try block of
\* validate_audio_file after the filename test, is caught there and raised
\* again as ValidationError("VALIDATION_FAILED") with its text in the message.
transcribe_audio_validate ==
    /\ req.svc = "pkg"
    /\ req.pc = "validate"
    /\ \E faulted \in BOOLEAN :
        /\ faulted => req.filename # <<>>
        /\ req' = IF faulted
                  THEN [req EXCEPT !.pc = "except",
                           !.outcome = Raise("ValidationError", "VALIDATION_FAILED",
                                             "validation fault")]
                  ELSE IF validate_audio_file(req.filename, req.size, <<>>) = "OK"
                  THEN [req EXCEPT !.pc = "create"]
                  ELSE [req EXCEPT !.pc = "except",
                           !.outcome = Raise("ValidationError",
                                             validate_audio_file(req.filename, req.size, <<>>),
                                             "none")]
    /\ UNCHANGED <<app, storage, redisUp, store, now, arrivals, model, fs, probe, answer>>

\* tempfile.NamedTemporaryFile(delete=False, suffix=file_extension)
transcribe_audio_create_tmp ==
    /\ req.svc = "pkg"
    /\ req.pc = "create"
    /\ fs' = fs \cup {NewTmp}
    /\ req' = [req EXCEPT !.pc = "write", !.tmp = NewTmp]
    /\ UNCHANGED <<app, storage, redisUp, store, now, arrivals, model, probe, answer>>

\* tmp.write(contents); tmp_path = tmp.name.  A write that raises leaves the
\* with block before tmp_path is assigned.
transcribe_audio_write_tmp ==
    /\ req.svc = "pkg"
    /\ req.pc = "write"
    /\ \E written \in BOOLEAN :
        /\ ~written => Cardinality(fs) <= MaxFaults
        /\ req' = IF written
                  THEN [req EXCEPT !.pc = "transcribe", !.tmp_path = req.tmp]
                  ELSE [req EXCEPT !.pc = "except",
                           !.outcome = Raise("OSError", "none", "write")]
    /\ UNCHANGED <<app, storage, redisUp, store, now, arrivals, model, fs, probe, answer>>

\* await transcribe_audio_file(tmp_path, client_ip) with the model loaded: the
\* coroutine calls model.transcribe directly, on the event loop's thread
transcribe_audio_file_enter ==
    /\ req.svc = "pkg"
    /\ req.pc = "transcribe"
    /\ engine_invoked(model)
    /\ req' = [req EXCEPT !.pc = "in_engine"]
    /\ UNCHANGED <<app, storage, redisUp, store, now, arrivals, model, fs, probe, answer>>

\* transcribe_audio calling transcribe_audio_file a second time when the
\* first call raised
transcribe_audio_transcribe_retrying ==
    /\ req.svc = "pkg"
    /\ req.pc = IF engine_invoked(model) THEN "in_engine" ELSE "transcribe"
    /\ \E b \in EngineRuns :
        /\ ~engine_invoked(model) => b.fault = "none" /\ b.segs = <<>>
        /\ req' = [req EXCEPT !.pc = "except",
                      !.fault = IF engine_invoked(model) THEN b.fault ELSE "none",
                      !.engine_calls = IF ~engine_invoked(model) THEN @
                                       ELSE IF b.fault = "none" THEN @ + 1 ELSE @ + 2,
                      !.outcome = transcribe_audio_file(model, b)]
    /\ UNCHANGED <<app, storage, redisUp, store, now, arrivals, model, fs, probe, answer>>

\* transcript = await transcribe_audio_file(tmp_path, client_ip): the engine
\* call and the segment loop end, or the model test raises at once
transcribe_audio_transcribe ==
    /\ req.svc = "pkg"
    /\ req.pc = IF engine_invoked(model) THEN "in_engine" ELSE "transcribe"
    /\ \E b \in EngineRuns :
        /\ ~engine_invoked(model) => b.fault = "none" /\ b.segs = <<>>
        /\ req' = [req EXCEPT !.pc = "except",
                      !.fault = IF engine_invoked(model) THEN b.fault ELSE "none",
                      !.engine_calls = IF engine_invoked(model) THEN @ + 1 ELSE @,
                      !.outcome = transcribe_audio_file(model, b)]
    /\ UNCHANGED <<app, storage, redisUp, store, now, arrivals, model, fs, probe, answer>>

\* the response dict, or the except clauses: ValidationError and
\* TranscriptionError go to their handlers, anything else becomes
\* HTTPException(500) with the exception's text in its detail
transcribe_audio_except ==
    /\ req.svc = "pkg"
    /\ req.pc = "except"
    /\ req' = [req EXCEPT !.pc = "finally",
                  !.resp = CASE req.outcome.raised = "none" ->
                                  success_response(req.outcome.value, req.filename,
                                                   req.size)
                             [] req.outcome.raised = "ValidationError" ->
                                  validation_exception_handler(req.outcome)
                             [] req.outcome.raised = "TranscriptionError" ->
                                  transcription_exception_handler(req.outcome)
                             [] OTHER ->
                                  Response(500, "none", <<>>, {"detail"}, req.outcome.cause)]
    /\ UNCHANGED <<app, storage, redisUp, store, now, arrivals, model, fs, probe, answer>>

\* the finally block without the try around os.remove
transcribe_audio_cleanup_unguarded(tmp_path, files, removed) ==
    IF tmp_path # 0 /\ tmp_path \in files
    THEN [fs |-> IF removed THEN files \ {tmp_path} ELSE files, raised |-> ~removed]
    ELSE [fs |-> files, raised |-> FALSE]

\* voicetranscript/main.py transcribe_audio, the finally block: the files
\* left and whether it raised.  os.remove runs only when tmp_path is set and
\* the file exists, inside a try whose `except Exception` only logs.
transcribe_audio_cleanup(tmp_path, files, removed) ==
    IF tmp_path # 0 /\ tmp_path \in files
    THEN [fs |-> IF removed THEN files \ {tmp_path} ELSE files, raised |-> FALSE]
    ELSE [fs |-> files, raised |-> FALSE]

\* finally: os.remove when tmp_path is set and the file exists; an os.remove
\* that raises is logged and swallowed.  An exception leaving the block
\* would replace the response by a plain 500.
transcribe_audio_finally ==
    /\ req.svc = "pkg"
    /\ req.pc = "finally"
    /\ \E removed \in BOOLEAN :
        LET end == transcribe_audio_cleanup(req.tmp_path, fs, removed) IN
        /\ ~removed => (req.tmp_path \in fs /\ Cardinality(fs) <= MaxFaults)
        /\ fs' = end.fs
        /\ req' = IF end.raised
                  THEN [req EXCEPT !.pc = "done",
                           !.resp = Response(500, "none", <<>>, {}, "none")]
                  ELSE [req EXCEPT !.pc = "done"]
    /\ UNCHANGED <<app, storage, redisUp, store, now, arrivals, model, probe, answer>>

\* whether the event loop's thread is inside transcribe_audio without
\* reaching an await: model.transcribe and the segment loop are plain calls
\* inside the coroutine, and nothing after them awaits before it returns
event_loop_blocked ==
    req.svc = "pkg" /\ req.pc \in {"in_engine", "except", "finally"}

\* GET /health arrives while the engine call of a request is in progress
health_arrives ==
    /\ req.svc = "pkg"
    /\ req.pc = "in_engine"
    /\ req.health = "none"
    /\ req' = [req EXCEPT !.health = "waiting"]
    /\ UNCHANGED <<app, storage, redisUp, store, now, arrivals, model, fs, probe, answer>>

\* health_check: a coroutine, run by the event loop when its thread is free
health_check ==
    /\ req.health = "waiting"
    /\ ~event_loop_blocked
    /\ req' = [req EXCEPT !.health = IF model # "None" THEN "healthy" ELSE "unhealthy"]
    /\ UNCHANGED <<app, storage, redisUp, store, now, arrivals, model, fs, probe, answer>>

\* the response is sent; the handler's locals are gone
Complete ==
    /\ req.pc = "done"
    /\ req.health # "waiting"
    /\ req' = Idle
    /\ UNCHANGED <<app, storage, redisUp, store, now, arrivals, model, fs, probe, answer>>

Next ==
    \/ RedisFails
    \/ RedisRecovers
    \/ Tick
    \/ import_main
    \/ startup_event
    \/ lifespan
    \/ limiter_limit
    \/ transcribe_validate
    \/ transcribe_create_tmp
    \/ transcribe_write_tmp
    \/ transcribe_engine
    \/ transcribe_finally
    \/ transcribe_audio_entry
    \/ transcribe_audio_validate
    \/ transcribe_audio_create_tmp
    \/ transcribe_audio_write_tmp
    \/ transcribe_audio_file_enter
    \/ transcribe_audio_transcribe
    \/ transcribe_audio_except
    \/ transcribe_audio_finally
    \/ health_arrives
    \/ health_check
    \/ Complete

Spec == Init /\ [][Next]_vars

---------------------------------------------------------------------------
(* The packaged service alone, remembering the last failure it answered *)

\* the body of a response: everything it carries but the status line and headers
Body(resp) ==
    [code |-> resp.code, transcript |-> resp.transcript, fields |-> resp.fields,
     cause |-> resp.cause, metadata |-> resp.metadata, formats |-> resp.formats,
     limit_mb |-> resp.limit_mb]

InitBodies ==
    /\ PipelineAtRest
    /\ probe = <<>>
    /\ answer = <<>>

\* the response is sent; a failure response is kept with the request it answered
Remember ==
    /\ req.pc = "done"
    /\ req.health # "waiting"
    /\ answer' = IF req.resp.status >= 400
                 THEN <<[svc |-> req.svc, key |-> req.key, filename |-> req.filename,
                         size |-> req.size, resp |-> req.resp]>>
                 ELSE answer
    /\ req' = Idle
    /\ UNCHANGED <<app, storage, redisUp, store, now, arrivals, model, fs, probe>>

NextBodies ==
    \/ lifespan
    \/ transcribe_audio_entry
    \/ transcribe_audio_validate
    \/ transcribe_audio_create_tmp
    \/ transcribe_audio_write_tmp
    \/ transcribe_audio_file_enter
    \/ transcribe_audio_transcribe
    \/ transcribe_audio_except
    \/ transcribe_audio_finally
    \/ health_arrives
    \/ health_check
    \/ Remember

SpecBodies == InitBodies /\ [][NextBodies]_vars

---------------------------------------------------------------------------
(* The limiter's wrapper under concurrent requests: each request resolves  *)
(* its key, then has the store count it.  probe holds the requests inside  *)
(* the wrapper, answer the decisions made so far per key.                  *)

Slots == 1..MaxInFlight

NoCheck == [pc |-> "idle", key |-> <<>>, seen |-> 0]

InitRace ==
    /\ app \in {[pc |-> "serving", ping |-> "ok"], [pc |-> "serving", ping |-> "failed"]}
    /\ storage = IF app.ping = "ok" THEN "redis" ELSE "memory"
    /\ redisUp = TRUE
    /\ store = [b \in Backends |-> [k \in Keys |-> [window |-> 0, count |-> 0]]]
    /\ now = 0
    /\ arrivals = [k \in Keys |-> 0]
    /\ model = "None"
    /\ fs = {}
    /\ req = Idle
    /\ probe = [i \in Slots |-> NoCheck]
    /\ answer = [k \in Keys |-> [allowed |-> 0, denied |-> 0]]

\* the count a store's increment starts from when it was last read as seen
\* and holds stored now: a read-then-write increment
storage_incr_operand_stale(stored, seen) ==
    [window |-> stored.window, count |-> seen]

\* the count a store's increment starts from: the one it holds at that
\* moment (the store's atomic increment primitive, or the counter under its
\* lock)
storage_incr_operand(stored, seen) == stored

\* the wrapper calls key_func(request)
limiter_resolve_key(i) ==
    /\ probe[i].pc = "idle"
    /\ \E c \in Clients :
        LET key == main_get_client_ip(c.xff, c.xri, c.client) IN
        /\ arrivals[key] < MaxPerWindow
        /\ arrivals' = [arrivals EXCEPT ![key] = @ + 1]
        /\ probe' = [probe EXCEPT ![i] = [pc |-> "keyed", key |-> key,
                                          seen |-> store[storage][key].count]]
    /\ UNCHANGED <<app, storage, redisUp, store, now, model, fs, req, answer>>

\* the store counts the request and the wrapper decides
limiter_count(i) ==
    /\ probe[i].pc = "keyed"
    /\ LET key == probe[i].key
           be == limiter_backend(storage, redisUp)
           entry == limiter_hit(storage_incr_operand(store[be][key], probe[i].seen),
                                current_window(now))
       IN  /\ store' = [store EXCEPT ![be][key] = entry]
           /\ answer' = IF limiter_allows(entry)
                        THEN [answer EXCEPT ![key].allowed = @ + 1]
                        ELSE [answer EXCEPT ![key].denied = @ + 1]
    /\ probe' = [probe EXCEPT ![i] = NoCheck]
    /\ UNCHANGED <<app, storage, redisUp, now, arrivals, model, fs, req>>

NextRace ==
    \/ \E i \in Slots : limiter_resolve_key(i)
    \/ \E i \in Slots : limiter_count(i)

SpecRace == InitRace /\ [][NextRace]_vars

---------------------------------------------------------------------------
(* The cleanup step alone, run up to twice on one path over every set of   *)
(* files: tmp_path 0 is None, a path not in fs is a file that is gone       *)

\* the names a temporary file can have
TmpNames == 1..(MaxFaults + 2)

InitRelease ==
    /\ app = [pc |-> "import", ping |-> "none"]
    /\ storage = "unset"
    /\ redisUp = TRUE
    /\ store = [b \in Backends |-> [k \in Keys |-> [window |-> 0, count |-> 0]]]
    /\ now = 0
    /\ arrivals = [k \in Keys |-> 0]
    /\ model = "None"
    /\ fs \in SUBSET TmpNames
    /\ req = Idle
    /\ probe \in [svc : {"main", "pkg"}, tmp_path : {0} \cup TmpNames]
    /\ answer = <<>>

\* the finally block of src/main.py transcribe
ReleaseMain ==
    /\ probe.svc = "main"
    /\ Len(answer) < 2
    /\ \E removed \in BOOLEAN :
        LET end == transcribe_cleanup(probe.tmp_path, fs, removed) IN
        /\ fs' = end.fs
        /\ answer' = Append(answer, [before |-> fs, after |-> end.fs,
                                     raised |-> end.raised])
    /\ UNCHANGED <<app, storage, redisUp, store, now, arrivals, model, req, probe>>

\* the finally block of voicetranscript/main.py transcribe_audio
ReleasePkg ==
    /\ probe.svc = "pkg"
    /\ Len(answer) < 2
    /\ \E removed \in BOOLEAN :
        LET end == transcribe_audio_cleanup(probe.tmp_path, fs, removed) IN
        /\ fs' = end.fs
        /\ answer' = Append(answer, [before |-> fs, after |-> end.fs,
                                     raised |-> end.raised])
    /\ UNCHANGED <<app, storage, redisUp, store, now, arrivals, model, req, probe>>

NextRelease == ReleaseMain \/ ReleasePkg

SpecRelease == InitRelease /\ [][NextRelease]_vars

---------------------------------------------------------------------------
(* Properties of the request pipeline *)

C2_TempFileGone ==
    (req.pc = "done" /\ req.tmp # 0) => req.tmp \notin fs

\* C4: a temporary file is created and the engine is called only for a
\* request that passed validation and, in the rate-limited service, was
\* allowed by the limiter; a request answered 400, 413 or 429 has neither.
C4_ChecksBeforeArtifact ==
    /\ (req.tmp # 0 \/ req.engine_calls > 0) =>
          /\ req.svc = "pkg" => validate_audio_file(req.filename, req.size, <<>>) = "OK"
          /\ req.svc = "main" =>
                main_validate(req.filename, req.size) = 200 /\ req.decision = "allowed"
    /\ req.resp.status \in {400, 413, 429} => req.tmp = 0 /\ req.engine_calls = 0

C4_Witness ==
    /\ req.svc = "pkg"
    /\ req.pc = "done"
    /\ req.resp.code = "UNSUPPORTED_FORMAT"
    /\ req.tmp = 0
    /\ req.engine_calls = 0

\* C5: when model.transcribe or the iteration of its segments raises, what
\* leaves transcribe_audio_file is a TranscriptionError of kind
\* TRANSCRIPTION_FAILED, answered 500; nothing but a TranscriptionError ever
\* leaves it.
C5_EngineFaultsNormalised ==
    /\ (req.svc = "pkg" /\ req.fault # "none") =>
          /\ req.outcome.raised = "TranscriptionError"
          /\ req.outcome.code = "TRANSCRIPTION_FAILED"
          /\ req.pc \in {"finally", "done"} =>
                req.resp.status = 500 /\ req.resp.code = "TRANSCRIPTION_FAILED"
    /\ (req.svc = "pkg" /\ req.pc = "except" /\ req.tmp_path # 0) =>
          req.outcome.raised \in {"none", "TranscriptionError"}

C5_Witness ==
    /\ req.svc = "pkg"
    /\ req.pc = "done"
    /\ req.fault = "iter"
    /\ req.resp.status = 500
    /\ req.resp.code = "TRANSCRIPTION_FAILED"

\* C6: when a validated upload reaches transcribe_audio_file while the model
\* is None, the response is 500 with kind MODEL_NOT_LOADED and the engine was
\* not called.
C6_ModelNotLoaded ==
    (req.svc = "pkg" /\ req.pc = "done" /\ req.tmp_path # 0 /\ model = "None") =>
        /\ req.resp.status = 500
        /\ req.resp.code = "MODEL_NOT_LOADED"
        /\ req.engine_calls = 0

\* C10: every rate-limit check goes to the memory store when the start-up
\* ping failed and to the Redis store when it answered; the Limiter's store
\* never changes once built, and the store that was not chosen is never
\* written, whatever Redis does afterwards.
C10_StoreFixedAtStartup ==
    /\ [](req.backend # "none" =>
            req.backend = IF app.ping = "failed" THEN "memory" ELSE "redis")
    /\ [][storage # "unset" => storage' = storage]_vars
    /\ [][app.ping = "failed" => store'["redis"] = store["redis"]]_vars
    /\ [][app.ping = "ok" => store'["memory"] = store["memory"]]_vars

C10_Witness ==
    /\ app.ping = "failed"
    /\ redisUp
    /\ req.backend = "memory"
    /\ req.decision = "allowed"

\* C11: when Redis stops answering after the start-up ping succeeded, every
\* POST /transcribe request still ends with a decision of the limiter, allowed
\* or denied with 429; none fails because of the limiter.
C11_OutageNeverFatal ==
    (req.svc = "main" /\ app.ping = "ok" /\ req.pc = "done") =>
        /\ req.decision \in {"allowed", "denied"}
        /\ req.decision = "denied" => req.resp.status = 429

\* C12: every 429 answered to a denied POST /transcribe carries a Retry-After
\* hint.
C12_DenialCarriesRetryAfter ==
    req.resp.status = 429 =>
        "Retry-After" \in req.resp.headers \/ "retry_after" \in req.resp.fields

\* C13: every upload of more than FILE_SIZE_LIMIT bytes that the limiter let
\* through is rejected with a message stating the limit in MB and with one
\* status, the status every request path of the service gives an oversized
\* upload.
C13_OneOverLimitStatus ==
    (req.pc = "done" /\ req.size > FILE_SIZE_LIMIT /\ req.decision \in {"none", "allowed"}) =>
        /\ req.resp.status \in {400, 413}
        /\ req.resp.limit_mb = FILE_SIZE_LIMIT \div (1024 * 1024)
        /\ \A f \in UploadNames :
              /\ main_validate(f, req.size) = req.resp.status
              /\ validation_exception_handler(
                     Raise("ValidationError", validate_audio_file(f, req.size, <<>>),
                           "none")).status = req.resp.status

\* C14: the status is a fixed function of the error kind: MISSING_FILENAME,
\* UNSUPPORTED_FORMAT and EMPTY_FILE are answered 400, MODEL_NOT_LOADED and
\* TRANSCRIPTION_FAILED 500, whether the kind is read off the response or off
\* the failure that caused it, and no kind has two statuses.
C14_StatusByKind ==
    /\ req.resp.code \in {"MISSING_FILENAME", "UNSUPPORTED_FORMAT", "EMPTY_FILE"}
          => req.resp.status = 400
    /\ req.resp.code \in {"MODEL_NOT_LOADED", "TRANSCRIPTION_FAILED"}
          => req.resp.status = 500
    /\ req.resp.code \in {"FILE_TOO_LARGE", "VALIDATION_FAILED"}
          => req.resp.status = 400
    /\ (req.svc = "pkg" /\ req.pc \in {"finally", "done"}) =>
          /\ req.outcome.code \in {"MISSING_FILENAME", "UNSUPPORTED_FORMAT", "EMPTY_FILE"}
                => req.resp.status = 400
          /\ (req.tmp_path # 0 /\ (model = "None" \/ req.fault # "none"))
                => req.resp.status = 500

C14_Witness ==
    /\ req.svc = "pkg"
    /\ req.pc = "done"
    /\ req.resp.code = "EMPTY_FILE"
    /\ req.resp.status = 400

\* C15: a fault inside POST /transcribe that is neither a validation failure
\* nor a transcription failure (here: the write of the temporary file
\* raising) is answered 500 with a body that has a kind, UNEXPECTED, and a
\* message field.
C15_UnexpectedEnvelope ==
    ( \/ /\ req.svc = "pkg"
         /\ req.pc \in {"finally", "done"}
         /\ req.outcome.raised \notin {"none", "ValidationError", "TranscriptionError"}
      \/ /\ req.svc = "main"
         /\ req.pc \in {"finally", "done"}
         /\ req.tmp # 0
         /\ req.tmp_path = 0 ) =>
        /\ req.resp.status = 500
        /\ req.resp.code = "UNEXPECTED"
        /\ "message" \in req.resp.fields
        /\ "kind" \in req.resp.fields \/ "error_code" \in req.resp.fields

\* C16: the error kind carried by a failure response is always one of the
\* eight kinds of the taxonomy.
C16_ClosedTaxonomy ==
    (req.resp.status >= 400 /\ req.resp.code # "none") =>
        req.resp.code \in {"MISSING_FILENAME", "UNSUPPORTED_FORMAT", "EMPTY_FILE",
                           "FILE_TOO_LARGE", "RATE_LIMITED", "MODEL_NOT_LOADED",
                           "TRANSCRIPTION_FAILED", "UNEXPECTED"}

\* the error category of a failure response: its kind, UNEXPECTED for a body
\* without one
Category(resp) == IF resp.code = "none" THEN "UNEXPECTED" ELSE resp.code

\* C17: two requests of one client with the same payload that fail in the
\* same error category get the same response body, whatever the text of the
\* exception inside.
C17_BodyIndependentOfInternals ==
    ( /\ answer # <<>>
      /\ req.pc = "done"
      /\ req.resp.status >= 400
      /\ req.svc = answer[1].svc
      /\ req.key = answer[1].key
      /\ req.filename = answer[1].filename
      /\ req.size = answer[1].size
      /\ Category(req.resp) = Category(answer[1].resp) ) =>
        Body(req.resp) = Body(answer[1].resp)

\* C19: every 200 of the packaged POST /transcribe has a non-empty
\* transcript, metadata.filename equal to the uploaded filename and
\* metadata.file_size_bytes equal to the number of bytes uploaded.
C19_SuccessShape ==
    (req.svc = "pkg" /\ req.resp.status = 200) =>
        /\ req.resp.transcript # <<>>
        /\ req.resp.metadata # <<>>
        /\ req.resp.metadata[1].filename = req.filename
        /\ req.resp.metadata[1].file_size_bytes = req.size

C19_Witness ==
    /\ req.svc = "pkg"
    /\ req.pc = "done"
    /\ req.resp.status = 200
    /\ req.resp.transcript = NoSpeech
    /\ req.filename = <<"a", ".", "w", "e", "b", "m">>
    /\ req.resp.metadata[1].filename = <<"a", ".", "w", "e", "b", "m">>
    /\ req.resp.metadata[1].file_size_bytes = 1

\* C20: while the engine call of a POST /transcribe request is in progress, a
\* GET /health request that has arrived can be served without waiting for
\* the call to end.
C20_HealthNotStalled ==
    (req.pc = "in_engine" /\ req.health = "waiting") => ENABLED health_check

C26_KeyIsolation ==
    /\ []((req.svc = "main" /\ req.decision \in {"allowed", "denied"}) =>
             (req.decision = "allowed" <=> req.nth <= 5))
    /\ [][\A b \in Backends : \A k \in Keys :
             store'[b][k] # store[b][k] => (req.pc = "idle" /\ req'.key = k)]_vars

C26_Witness ==
    /\ req.svc = "main"
    /\ req.decision = "allowed"
    /\ req.nth = 1
    /\ \E k \in Keys :
          /\ k # req.key
          /\ arrivals[k] = 6
          /\ store[req.backend][k] = [window |-> now \div 60, count |-> 6]

\* C27: within one request the engine is called at most once; a failed
\* transcription is answered once, 500, after exactly one engine call, and a
\* response once made is not replaced.
C27_NoRetry ==
    /\ [](req.engine_calls <= 1)
    /\ []((req.svc = "pkg" /\ req.fault # "none") =>
             /\ req.engine_calls = 1
             /\ req.pc \in {"finally", "done"} => req.resp.status = 500)
    /\ [][(req.svc = "pkg" /\ req.resp # NoResponse /\ req'.pc # "idle")
             => req'.resp = req.resp]_vars

C27_Witness ==
    /\ req.svc = "pkg"
    /\ req.pc = "done"
    /\ req.fault = "call"
    /\ req.engine_calls = 1
    /\ req.resp.status = 500

\* C28: in the rate-limited service every request the limiter counted keeps
\* its unit whatever happens to it afterwards: while it is handled and when
\* it has ended, rejected for size or format, failed or successful, the
\* key's count is the number of requests the key has sent in the window.
C28_EveryRequestCounts ==
    /\ (req.svc = "main" /\ req.decision \in {"allowed", "denied"}) =>
          /\ store[req.backend][req.key].count = req.nth
          /\ arrivals[req.key] = req.nth
    /\ (app.pc = "serving" /\ req.pc = "idle") =>
          \A k \in Keys :
              store[storage][k].window = now \div 60 =>
                  store[storage][k].count = arrivals[k]

C28_Witness ==
    /\ req.svc = "main"
    /\ req.pc = "done"
    /\ req.resp.status = 413
    /\ req.nth = 5
    /\ store[req.backend][req.key].count = 5

\* C29: in the packaged service a failure to delete the temporary file
\* changes nothing in the response: the finally block leaves the response as
\* the except clauses made it, also when the file is still there afterwards.
C29_CleanupFailureSilent ==
    /\ [][(req.svc = "pkg" /\ req.pc = "finally") => req'.resp = req.resp]_vars
    /\ []((req.svc = "pkg" /\ req.pc = "done" /\ req.tmp_path # 0
              /\ req.tmp_path \in fs) =>
             /\ req.resp.status = 200 <=> req.outcome.raised = "none"
             /\ req.resp.status = 500 <=> req.outcome.raised # "none"
             /\ req.resp.code = req.outcome.code)

C29_Witness ==
    /\ req.svc = "pkg"
    /\ req.pc = "done"
    /\ req.tmp_path # 0
    /\ req.tmp_path \in fs
    /\ req.resp.status = 200

---------------------------------------------------------------------------
(* Properties of the limiter under concurrent requests *)

\* C23: however the requests of one key interleave inside the limiter within
\* one window, at most 5 of them are allowed and no increment is lost: the
\* key's count is the number of requests counted so far, and every request
\* past the fifth counted is denied.
C23_AtomicIncrement ==
    \A k \in Keys :
        /\ answer[k].allowed <= 5
        /\ store[storage][k].count = answer[k].allowed + answer[k].denied
        /\ answer[k].allowed = (IF store[storage][k].count <= 5
                                THEN store[storage][k].count ELSE 5)

C23_Witness ==
    \E k \in Keys : \E i \in Slots :
        /\ answer[k].allowed = 5
        /\ store[storage][k].count = 5
        /\ probe[i].pc = "keyed"
        /\ probe[i].key = k
        /\ probe[i].seen = 4

---------------------------------------------------------------------------
(* Properties of the cleanup step *)

\* C21: the cleanup step does not raise and changes nothing when the file
\* was never created (tmp_path is None), when the file is already gone, and
\* when it runs a second time on a path it has released; the cleanup of
\* transcribe_audio never raises at all.
C21_ReleaseIdempotent ==
    \A i \in 1..Len(answer) :
        /\ (probe.tmp_path = 0 \/ probe.tmp_path \notin answer[i].before) =>
              ~answer[i].raised /\ answer[i].after = answer[i].before
        /\ (i = 2 /\ probe.tmp_path \notin answer[1].after) =>
              ~answer[2].raised /\ fs = answer[1].after
        /\ probe.svc = "pkg" => ~answer[i].raised

C21_Witness ==
    /\ probe.svc = "main"
    /\ Len(answer) = 2
    /\ probe.tmp_path \in answer[1].before
    /\ probe.tmp_path \notin answer[1].after
    /\ ~answer[2].raised
    /\ fs = answer[1].after

---------------------------------------------------------------------------
(* Properties of the pure functions *)

AllWhitespace(s) == \A i \in 1..Len(s) : s[i] \in Whitespace

\* r is s without its leading and trailing whitespace, stated without strip
IsTrimOf(r, s) ==
    /\ r # <<>> => r[1] \notin Whitespace /\ r[Len(r)] \notin Whitespace
    /\ \E a \in 0..Len(s) : \E b \in a..Len(s) :
          /\ r = SubSeq(s, a + 1, b)
          /\ AllWhitespace(SubSeq(s, 1, a))
          /\ AllWhitespace(SubSeq(s, b + 1, Len(s)))

\* t is the text of h before its first comma, stated without split
IsFirstToken(t, h) ==
    /\ Len(t) <= Len(h)
    /\ t = SubSeq(h, 1, Len(t))
    /\ \A i \in 1..Len(t) : t[i] # ","
    /\ Len(t) < Len(h) => h[Len(t) + 1] = ","

RECURSIVE LenBefore(_, _)
\* the number of characters in the first i - 1 texts of segs
LenBefore(segs, i) ==
    IF i <= 1 THEN 0 ELSE LenBefore(segs, i - 1) + Len(segs[i - 1])

\* the texts of segs laid end to end, stated by position
Flat(segs) ==
    [k \in 1..LenBefore(segs, Len(segs) + 1) |->
        LET i == CHOOSE j \in 1..Len(segs) :
                    LenBefore(segs, j) < k /\ k <= LenBefore(segs, j) + Len(segs[j])
        IN segs[i][k - LenBefore(segs, i)]]

\* C3: validate_audio_file reports the first failing check in the order
\* empty filename, unsupported extension, zero bytes, over the size limit,
\* and passes exactly when none fails; a zero-byte or oversized upload with an
\* unsupported extension is UNSUPPORTED_FORMAT.
C3_ValidationOrder ==
    answer # <<>> =>
        LET named == probe.filename # <<>>
            format == file_extension(probe.filename) \in SUPPORTED_FORMATS
            filled == probe.size # 0
            fits == probe.size <= FILE_SIZE_LIMIT
        IN  /\ answer[1] = "MISSING_FILENAME" <=> ~named
            /\ answer[1] = "UNSUPPORTED_FORMAT" <=> named /\ ~format
            /\ answer[1] = "EMPTY_FILE" <=> named /\ format /\ ~filled
            /\ answer[1] = "FILE_TOO_LARGE" <=> named /\ format /\ filled /\ ~fits
            /\ answer[1] = "OK" <=> named /\ format /\ filled /\ fits

C3_Witness ==
    /\ answer = <<"UNSUPPORTED_FORMAT">>
    /\ probe.filename = <<"a", ".", "t", "x", "t">>
    /\ probe.size = 0

\* C18: for a non-empty filename with a '.', the format check passes exactly
\* when the text after the final '.', lower-cased, is one of the seven
\* supported formats; every other filename is rejected UNSUPPORTED_FORMAT,
\* and the message of that rejection lists all seven.
C18_ExtensionAfterFinalDot ==
    (answer # <<>> /\ probe.filename # <<>>) =>
        LET name == probe.filename
            dotted == \E i \in 1..Len(name) : name[i] = "."
            last == CHOOSE i \in 0..Len(name) :
                        /\ i > 0 => name[i] = "."
                        /\ \A j \in (i + 1)..Len(name) : name[j] # "."
                        /\ i = 0 => ~dotted
            after == [k \in 1..(Len(name) - last) |-> LowerChar(name[last + k])]
        IN  /\ dotted => (answer[1] # "UNSUPPORTED_FORMAT" <=> after \in SUPPORTED_FORMATS)
            /\ ~dotted => answer[1] = "UNSUPPORTED_FORMAT"
            /\ answer[1] = "UNSUPPORTED_FORMAT" =>
                  validation_message_formats(answer[1]) =
                      {<<"w", "a", "v">>, <<"m", "p", "3">>, <<"m", "4", "a">>,
                       <<"o", "g", "g">>, <<"f", "l", "a", "c">>,
                       <<"w", "e", "b", "m">>, <<"m", "p", "4">>}

\* C7: when every segment text is whitespace (or there is no segment), the
\* transcript is exactly "[No speech detected]"; a returned transcript is
\* never the empty string.
C7_NoSpeechSentinel ==
    answer # <<>> =>
        /\ answer[1].raised = "none"
        /\ answer[1].value # <<>>
        /\ (\A i \in 1..Len(probe.segs) : AllWhitespace(probe.segs[i]))
              => answer[1].value = NoSpeech

C7_Witness ==
    /\ answer # <<>>
    /\ probe.segs = << <<" ">>, <<"\t", " ">> >>
    /\ answer[1].value = NoSpeech

\* C8: when some segment text holds a non-whitespace character, the
\* transcript is the segment texts laid end to end in emission order, nothing
\* put between them, with the leading and trailing whitespace removed.
C8_ConcatThenTrim ==
    (answer # <<>> /\ \E i \in 1..Len(probe.segs) : ~AllWhitespace(probe.segs[i])) =>
        /\ answer[1].raised = "none"
        /\ answer[1].value # <<>>
        /\ IsTrimOf(answer[1].value, Flat(probe.segs))

C8_Witness ==
    /\ answer # <<>>
    /\ probe.segs = << <<"a", " ">>, <<"a", "\t">> >>
    /\ answer[1].value = <<"a", " ", "a">>

\* C9: both get_client_ip functions take the identity from the first source
\* that is present and non-empty: the trimmed first comma-separated token of
\* X-Forwarded-For, else X-Real-IP verbatim, else the connection address,
\* else "unknown".
C9_IdentityPriority ==
    answer # <<>> =>
        LET ip == answer[1].ip IN
        /\ Truthy(probe.xff) =>
              \E t \in SeqsUpTo(XffChars, Len(probe.xff[1])) :
                  IsFirstToken(t, probe.xff[1]) /\ IsTrimOf(ip, t)
        /\ (~Truthy(probe.xff) /\ Truthy(probe.xri)) => ip = probe.xri[1]
        /\ (~Truthy(probe.xff) /\ ~Truthy(probe.xri) /\ Truthy(probe.client))
              => ip = probe.client[1]
        /\ (~Truthy(probe.xff) /\ ~Truthy(probe.xri) /\ ~Truthy(probe.client))
              => ip \in {Unknown, <<>>}
        /\ (~Truthy(probe.xff) /\ ~Truthy(probe.xri) /\ probe.client = <<>>)
              => ip = Unknown

C9_Witness ==
    /\ answer # <<>>
    /\ answer[1].fn = "pkg"
    /\ probe.xff = << <<" ", "1", ",">> >>
    /\ probe.xri = << <<"2">> >>
    /\ answer[1].ip = <<"1">>

\* C22: when X-Forwarded-For is present but its first comma-separated token
\* is empty after trimming, the identity comes from the next rule: X-Real-IP
\* when present and non-empty, else the connection address, else "unknown".
C22_MalformedFallsThrough ==
    answer # <<>> =>
        LET ip == answer[1].ip
            malformed ==
                /\ Truthy(probe.xff)
                /\ \E t \in SeqsUpTo(XffChars, Len(probe.xff[1])) :
                      IsFirstToken(t, probe.xff[1]) /\ AllWhitespace(t)
        IN  malformed =>
                /\ Truthy(probe.xri) => ip = probe.xri[1]
                /\ (~Truthy(probe.xri) /\ Truthy(probe.client)) => ip = probe.client[1]
                /\ (~Truthy(probe.xri) /\ ~Truthy(probe.client)) => ip \in {Unknown, <<>>}
                /\ (~Truthy(probe.xri) /\ probe.client = <<>>) => ip = Unknown

====
